---- MODULE Spec2Model ----
(***************************************************************************)
(* txtpack: the delimiter codec, the stream extractor and the pack/unpack  *)
(* orchestration, modelled from src/src/txtpack/delimiter_processing.py    *)
(* and src/src/txtpack/pipeline.py.                                        *)
(*                                                                         *)
(* A Python str is a sequence of code points, a Python bytes object a      *)
(* sequence of integers 0..255.  Positions are Python's (0-based); Slice   *)
(* and Find carry Python's rules for negative and out-of-range indices.    *)
(* A raised exception is a result whose field raised names the exception.  *)
(***************************************************************************)
EXTENDS Integers, Sequences, FiniteSets, TLC

VARIABLES
    input,          \* what the run was given (a scenario, or a function's arguments)
    content_bytes,  \* the buffer handed to the unpack driver
    pos,            \* the cursor, a byte offset
    state,          \* the driver's state
    file_data,      \* the records collected so far
    visited,        \* the positions extract_next_file has been called at
    last,           \* the last call made and what it returned
    output_directory,   \* the directory unpack writes to: whether it exists, its files
    written         \* the records of file_data unpack has written

vars ==
    <<input, content_bytes, pos, state, file_data, visited, last, output_directory, written>>

(***************************************************************************)
(* BundlerConfig's defaults.                                               *)
(***************************************************************************)
\* "--- FILE: "
file_start_prefix == <<45, 45, 45, 32, 70, 73, 76, 69, 58, 32>>
\* " ("
file_start_middle == <<32, 40>>
\* " bytes) ---"
file_start_bytes_suffix == <<32, 98, 121, 116, 101, 115, 41, 32, 45, 45, 45>>
\* "--- END: "
file_end_prefix == <<45, 45, 45, 32, 69, 78, 68, 58, 32>>
\* " ---"
file_end_suffix == <<32, 45, 45, 45>>

(***************************************************************************)
(* Python's sequence primitives.                                           *)
(***************************************************************************)
Min(S) == CHOOSE x \in S : \A y \in S : x <= y

\* A slice or search index brought into 0..n: a negative one counts from the end.
Clamp(i, n) ==
    IF i < 0 THEN (IF i + n < 0 THEN 0 ELSE i + n)
    ELSE IF i > n THEN n ELSE i

\* s[a:b]
Slice(s, a, b) ==
    LET lo == Clamp(a, Len(s))
        hi == Clamp(b, Len(s))
    IN  IF lo >= hi THEN <<>> ELSE SubSeq(s, lo + 1, hi)

\* s.find(sub, start): the lowest index >= start where sub occurs, or -1.
Find(s, sub, start) ==
    IF start > Len(s) THEN -1
    ELSE LET lo == Clamp(start, Len(s))
             C == {i \in lo..(Len(s) - Len(sub)) : SubSeq(s, i + 1, i + Len(sub)) = sub}
         IN  IF C = {} THEN -1 ELSE Min(C)

\* s.startswith(p), s.endswith(p), sub in s
StartsWith(s, p) == Len(s) >= Len(p) /\ SubSeq(s, 1, Len(p)) = p
EndsWith(s, p) == Len(s) >= Len(p) /\ SubSeq(s, Len(s) - Len(p) + 1, Len(s)) = p
Contains(s, sub) == Find(s, sub, 0) # -1

(***************************************************************************)
(* str(n) of an f-string field and int(s).                                 *)
(***************************************************************************)
RECURSIVE Digits(_)
Digits(n) == IF n < 10 THEN <<48 + n>> ELSE Digits(n \div 10) \o <<48 + (n % 10)>>

IntToStr(n) == IF n < 0 THEN <<45>> \o Digits(0 - n) ELSE Digits(n)

\* The code points int() strips as white space (those below U+0100).
PyWhitespace == {9, 10, 11, 12, 13, 32, 133, 160}

RECURSIVE LStrip(_)
LStrip(s) == IF s # <<>> /\ Head(s) \in PyWhitespace THEN LStrip(Tail(s)) ELSE s

RECURSIVE RStrip(_)
RStrip(s) ==
    IF s # <<>> /\ s[Len(s)] \in PyWhitespace THEN RStrip(SubSeq(s, 1, Len(s) - 1)) ELSE s

IsDigit(c) == c >= 48 /\ c <= 57

\* The digits of a decimal literal: digits, single underscores only between digits.
RECURSIVE DigitsValue(_, _, _)
DigitsValue(s, i, acc) ==
    IF i > Len(s) THEN acc
    ELSE IF s[i] = 95 THEN DigitsValue(s, i + 1, acc)
    ELSE DigitsValue(s, i + 1, acc * 10 + (s[i] - 48))

IsDecimalBody(s) ==
    /\ s # <<>>
    /\ \A i \in 1..Len(s) :
          \/ IsDigit(s[i])
          \/ s[i] = 95 /\ i > 1 /\ i < Len(s) /\ IsDigit(s[i - 1]) /\ IsDigit(s[i + 1])

\* int(s): white space stripped, an optional sign, a decimal body.
ParseInt(s) ==
    LET t == RStrip(LStrip(s))
        signed == t # <<>> /\ t[1] \in {43, 45}
        body == IF signed THEN Tail(t) ELSE t
    IN  IF IsDecimalBody(body)
        THEN [ok |-> TRUE,
              value |-> IF signed /\ t[1] = 45
                        THEN 0 - DigitsValue(body, 1, 0) ELSE DigitsValue(body, 1, 0)]
        ELSE [ok |-> FALSE, value |-> 0]

(***************************************************************************)
(* UTF-8: bytes.decode("utf-8") (strict) and str.encode("utf-8").          *)
(***************************************************************************)
IsCont(x) == x >= 128 /\ x <= 191

\* The bytes a sequence led by b0 takes; 0 when b0 cannot lead one.
SeqLen(b0) ==
    IF b0 < 128 THEN 1
    ELSE IF b0 >= 194 /\ b0 <= 223 THEN 2
    ELSE IF b0 >= 224 /\ b0 <= 239 THEN 3
    ELSE IF b0 >= 240 /\ b0 <= 244 THEN 4
    ELSE 0

\* The code point of the well-formed sequence that starts at b[i], or -2.
CodePointAt(b, i) ==
    LET b0 == b[i]
        n == SeqLen(b0)
    IN  IF n = 0 \/ i + n - 1 > Len(b) \/ \E k \in 1..(n - 1) : ~IsCont(b[i + k]) THEN -2
        ELSE IF n = 1 THEN b0
        ELSE IF n = 2 THEN (b0 - 192) * 64 + (b[i + 1] - 128)
        ELSE IF n = 3
             THEN IF (b0 = 224 /\ b[i + 1] < 160) \/ (b0 = 237 /\ b[i + 1] > 159) THEN -2
                  ELSE (b0 - 224) * 4096 + (b[i + 1] - 128) * 64 + (b[i + 2] - 128)
        ELSE IF (b0 = 240 /\ b[i + 1] < 144) \/ (b0 = 244 /\ b[i + 1] > 143) THEN -2
             ELSE (b0 - 240) * 262144 + (b[i + 1] - 128) * 4096
                  + (b[i + 2] - 128) * 64 + (b[i + 3] - 128)

\* A continuation byte belongs to the sequence led by a byte at most three before it.
Covered(b, i) ==
    \E k \in 1..3 :
        /\ i - k >= 1
        /\ SeqLen(b[i - k]) > k
        /\ \A j \in (i - k + 1)..(i - 1) : IsCont(b[j])

IsCodePoint(x) == x >= 0

\* bytes.decode("utf-8"): ok is FALSE where it raises UnicodeDecodeError.
utf8_decode(b) ==
    LET cps == [i \in 1..Len(b) |-> IF IsCont(b[i]) THEN -1 ELSE CodePointAt(b, i)]
        ok == \A i \in 1..Len(b) : IF IsCont(b[i]) THEN Covered(b, i) ELSE cps[i] # -2
    IN  IF ok THEN [ok |-> TRUE, text |-> SelectSeq(cps, IsCodePoint)]
        ELSE [ok |-> FALSE, text |-> <<>>]

EncodeChar(c) ==
    IF c < 128 THEN <<c>>
    ELSE IF c < 2048 THEN <<192 + (c \div 64), 128 + (c % 64)>>
    ELSE IF c < 65536
         THEN <<224 + (c \div 4096), 128 + ((c \div 64) % 64), 128 + (c % 64)>>
    ELSE <<240 + (c \div 262144), 128 + ((c \div 4096) % 64),
           128 + ((c \div 64) % 64), 128 + (c % 64)>>

\* str.encode("utf-8"), by halves.
RECURSIVE utf8_encode(_)
utf8_encode(s) ==
    IF Len(s) = 0 THEN <<>>
    ELSE IF Len(s) = 1 THEN EncodeChar(s[1])
    ELSE LET h == Len(s) \div 2
         IN  utf8_encode(SubSeq(s, 1, h)) \o utf8_encode(SubSeq(s, h + 1, Len(s)))

(***************************************************************************)
(* The delimiter codec.                                                    *)
(***************************************************************************)
create_file_start_delimiter(filename, byte_count) ==
    file_start_prefix \o filename \o file_start_middle
        \o IntToStr(byte_count) \o file_start_bytes_suffix

create_file_end_delimiter(filename) == file_end_prefix \o filename \o file_end_suffix

is_file_start_delimiter(line) ==
    /\ StartsWith(line, file_start_prefix)
    /\ Contains(line, file_start_middle)
    /\ EndsWith(line, file_start_bytes_suffix)

\* What parse_file_start_delimiter raises, by its message.
ParseError(msg) ==
    [raised |-> "ValueError", error |-> msg, filename |-> <<>>, byte_count |-> 0]

\* parse_file_start_delimiter with the count field begun one past the middle
\* fragment's first character instead of past the whole fragment.
parse_file_start_delimiter_ShortMiddle(line) ==
    IF ~is_file_start_delimiter(line) THEN ParseError("Not a valid start delimiter")
    ELSE LET middle_pos == Find(line, file_start_middle, 0) IN
         IF middle_pos = -1 THEN ParseError("Missing middle delimiter")
         ELSE LET filename == Slice(line, Len(file_start_prefix), middle_pos)
                  bytes_start == middle_pos + 1
                  bytes_end == Find(line, file_start_bytes_suffix, 0)
              IN  IF bytes_end = -1 THEN ParseError("Missing bytes suffix")
                  ELSE LET n == ParseInt(Slice(line, bytes_start, bytes_end)) IN
                       IF ~n.ok THEN ParseError("Invalid byte count")
                       ELSE [raised |-> "none", error |-> "",
                             filename |-> filename, byte_count |-> n.value]

parse_file_start_delimiter(line) ==
    IF ~is_file_start_delimiter(line) THEN ParseError("Not a valid start delimiter")
    ELSE LET middle_pos == Find(line, file_start_middle, 0) IN
         IF middle_pos = -1 THEN ParseError("Missing middle delimiter")
         ELSE LET filename == Slice(line, Len(file_start_prefix), middle_pos)
                  bytes_start == middle_pos + Len(file_start_middle)
                  bytes_end == Find(line, file_start_bytes_suffix, 0)
              IN  IF bytes_end = -1 THEN ParseError("Missing bytes suffix")
                  ELSE LET n == ParseInt(Slice(line, bytes_start, bytes_end)) IN
                       IF ~n.ok THEN ParseError("Invalid byte count")
                       ELSE [raised |-> "none", error |-> "",
                             filename |-> filename, byte_count |-> n.value]

is_file_end_delimiter(line, filename) ==
    line = file_end_prefix \o filename \o file_end_suffix

(***************************************************************************)
(* The stream extractor.                                                   *)
(***************************************************************************)
find_next_line_end(bytes, start_pos) ==
    LET line_end == Find(bytes, <<10>>, start_pos)
    IN  IF line_end # -1 THEN line_end ELSE Len(bytes)

ExtractError(msg) ==
    [raised |-> "ValueError", error |-> msg, file_content |-> <<>>, new_pos |-> 0]

\* extract_file_content_at_position without the length check: the slice is
\* whatever remains.
extract_file_content_at_position_NoLengthCheck(bytes, p, filename, byte_count) ==
    LET d == utf8_decode(Slice(bytes, p, p + byte_count)) IN
    IF ~d.ok THEN ExtractError("Failed to decode content")
    ELSE [raised |-> "none", error |-> "",
          file_content |-> d.text, new_pos |-> p + byte_count]

\* extract_file_content_at_position with the cursor advanced by the characters
\* decoded instead of the bytes taken.
extract_file_content_at_position_CharCursor(bytes, p, filename, byte_count) ==
    IF p + byte_count > Len(bytes) THEN ExtractError("Not enough content")
    ELSE LET d == utf8_decode(Slice(bytes, p, p + byte_count)) IN
         IF ~d.ok THEN ExtractError("Failed to decode content")
         ELSE [raised |-> "none", error |-> "",
               file_content |-> d.text, new_pos |-> p + Len(d.text)]

extract_file_content_at_position(bytes, p, filename, byte_count) ==
    IF p + byte_count > Len(bytes) THEN ExtractError("Not enough content")
    ELSE LET d == utf8_decode(Slice(bytes, p, p + byte_count)) IN
         IF ~d.ok THEN ExtractError("Failed to decode content")
         ELSE [raised |-> "none", error |-> "",
               file_content |-> d.text, new_pos |-> p + byte_count]

\* skip_end_delimiter moving past the line after the payload whether or not it is
\* the expected end marker.
skip_end_delimiter_AnyLine(bytes, p, filename) ==
    IF p >= Len(bytes) THEN p
    ELSE LET p1 == IF p < Len(bytes) /\ Slice(bytes, p, p + 1) = <<10>> THEN p + 1 ELSE p
             line_end == find_next_line_end(bytes, p1)
         IN  IF line_end > p1 THEN line_end + 1 ELSE p1

\* skip_end_delimiter leaving the cursor on the end marker's newline.
skip_end_delimiter_OnNewline(bytes, p, filename) ==
    IF p >= Len(bytes) THEN p
    ELSE LET p1 == IF p < Len(bytes) /\ Slice(bytes, p, p + 1) = <<10>> THEN p + 1 ELSE p
             line_end == find_next_line_end(bytes, p1)
         IN  IF line_end > p1
             THEN LET d == utf8_decode(Slice(bytes, p1, line_end)) IN
                  IF d.ok /\ is_file_end_delimiter(d.text, filename)
                  THEN line_end
                  ELSE p1
             ELSE p1

skip_end_delimiter(bytes, p, filename) ==
    IF p >= Len(bytes) THEN p
    ELSE LET p1 == IF p < Len(bytes) /\ Slice(bytes, p, p + 1) = <<10>> THEN p + 1 ELSE p
             line_end == find_next_line_end(bytes, p1)
         IN  IF line_end > p1
             THEN LET d == utf8_decode(Slice(bytes, p1, line_end)) IN
                  IF d.ok /\ is_file_end_delimiter(d.text, filename)
                  THEN line_end + 1
                  ELSE p1
             ELSE p1

\* The except clause naming UnicodeDecodeError alone.
Caught_DecodeOnly == {"UnicodeDecodeError"}

\* The exceptions extract_next_file's try block catches.
Caught == {"ValueError", "UnicodeDecodeError"}

\* extract_next_file's return value; raised is an exception that escaped it, branch
\* the return statement taken.
NextFile(raised, branch, found, filename, file_content, new_pos, line_end) ==
    [raised |-> raised, branch |-> branch, found |-> found, filename |-> filename,
     file_content |-> file_content, new_pos |-> new_pos, line_end |-> line_end]

extract_next_file(bytes, p) ==
    LET line_end == find_next_line_end(bytes, p) IN
    IF line_end = p THEN NextFile("none", "empty_line", FALSE, <<>>, <<>>, p, line_end)
    ELSE LET d == utf8_decode(Slice(bytes, p, line_end)) IN
    IF ~d.ok
    THEN NextFile("none", "undecodable_line", FALSE, <<>>, <<>>, line_end + 1, line_end)
    ELSE IF ~is_file_start_delimiter(d.text)
    THEN NextFile("none", "not_a_start", FALSE, <<>>, <<>>, line_end + 1, line_end)
    ELSE LET parsed == parse_file_start_delimiter(d.text) IN
    IF parsed.raised # "none"
    THEN IF parsed.raised \in Caught
         THEN NextFile("none", "parse_failed", FALSE, <<>>, <<>>, line_end + 1, line_end)
         ELSE NextFile(parsed.raised, "raised", FALSE, <<>>, <<>>, p, line_end)
    ELSE LET content_start_pos == line_end + 1
             got == extract_file_content_at_position(
                        bytes, content_start_pos, parsed.filename, parsed.byte_count)
         IN
    IF got.raised # "none"
    THEN IF got.raised \in Caught
         THEN NextFile("none", "content_failed", FALSE, <<>>, <<>>, line_end + 1, line_end)
         ELSE NextFile(got.raised, "raised", FALSE, <<>>, <<>>, p, line_end)
    ELSE NextFile("none", "file", TRUE, parsed.filename, got.file_content,
                  skip_end_delimiter(bytes, got.new_pos, parsed.filename), line_end)

(***************************************************************************)
(* pack_files: the packed text of a list of <<filename, file_content>>.    *)
(***************************************************************************)
\* The UTF-8 byte length of a text.
get_file_byte_count(file_content) == Len(utf8_encode(file_content))

\* An entry of content_parts that declares the characters of the content, not its bytes.
PackPart_CharCount(filename, file_content) ==
    create_file_start_delimiter(filename, Len(file_content))
        \o <<10>> \o file_content \o <<10>>
        \o create_file_end_delimiter(filename) \o <<10>>

\* One entry of content_parts.
PackPart(filename, file_content) ==
    create_file_start_delimiter(filename, get_file_byte_count(file_content))
        \o <<10>> \o file_content \o <<10>>
        \o create_file_end_delimiter(filename) \o <<10>>

\* "\n".join(content_parts): a newline put between the records.
RECURSIVE JoinParts_Separated(_)
JoinParts_Separated(files) ==
    IF files = <<>> THEN <<>>
    ELSE IF Len(files) = 1 THEN PackPart(files[1][1], files[1][2])
    ELSE PackPart(files[1][1], files[1][2]) \o <<10>> \o JoinParts_Separated(Tail(files))

\* "".join(content_parts)
RECURSIVE JoinParts(_)
JoinParts(files) ==
    IF files = <<>> THEN <<>>
    ELSE PackPart(files[1][1], files[1][2]) \o JoinParts(Tail(files))

pack_files(files) ==
    IF files = <<>>
    THEN [raised |-> "ValueError", error |-> "No files found", content |-> <<>>]
    ELSE [raised |-> "none", error |-> "", content |-> JoinParts(files)]

(***************************************************************************)
(* The inputs of a run: a scenario is a list of segments, each a packed    *)
(* file (whose end marker may be missing or wrong) or a raw line.          *)
(***************************************************************************)
MaxSegs == 2

File(f, c, e) == [kind |-> "file", filename |-> f, content |-> c, end |-> e, text |-> <<>>]
Line(t, e) == [kind |-> "line", filename |-> <<>>, content |-> <<>>, end |-> e, text |-> t]

\* "a", "b", "a (b"
NameA == <<97>>
NameB == <<98>>
NameParen == <<97, 32, 40, 98>>

\* "x"; ""; "e-acute, newline, z"; "--- END: b ---\n--- FILE: a (0 bytes) ---\n"
TextX == <<120>>
TextEmpty == <<>>
TextAccent == <<233, 10, 122>>
TextDelims ==
    create_file_end_delimiter(NameB) \o <<10>>
        \o create_file_start_delimiter(NameA, 0) \o <<10>>

\* Files as pack_files writes them.
PackedSegs ==
    {File(NameA, TextX, "ok"), File(NameB, TextEmpty, "ok"), File(NameA, TextAccent, "ok"),
     File(NameB, TextDelims, "ok"), File(NameParen, TextX, "ok")}

\* A file whose end marker names another file, is missing (the separating newline
\* kept), or is missing with the separating newline.
TolerantSegs ==
    {File(NameA, TextX, "wrong"), File(NameA, TextX, "none"), File(NameA, TextX, "bare")}

\* "zz"; ""; bytes that are not UTF-8 once the first two are taken away;
\* a stray end marker; start lines with a count that is not a number, that
\* leaves the payload to what follows, that is too large, that is negative;
\* a start line for an empty file with no newline after it.
LineSegs ==
    {Line(<<122, 122>>, "nl"), Line(<<122, 122>>, "bare"), Line(<<>>, "nl"),
     Line(<<195, 169, 255>>, "nl"),
     Line(utf8_encode(create_file_end_delimiter(NameA)), "nl"),
     Line(utf8_encode(file_start_prefix \o <<120>> \o file_start_middle
                       \o <<97, 98, 99>> \o file_start_bytes_suffix), "nl"),
     Line(utf8_encode(create_file_start_delimiter(NameA, 1)), "nl"),
     Line(utf8_encode(create_file_start_delimiter(NameA, 1000)), "nl"),
     Line(utf8_encode(create_file_start_delimiter(NameA, 0 - 28)), "nl"),
     Line(utf8_encode(create_file_start_delimiter(NameB, 0)), "bare")}

Segments == PackedSegs \cup TolerantSegs \cup LineSegs

SeqsUpTo(S, n) == UNION {[1..k -> S] : k \in 0..n}

Scenarios == SeqsUpTo(Segments, MaxSegs)

\* The other of the two plain file names.
OtherName(f) == IF f = NameA THEN NameB ELSE NameA

\* The bytes of one segment.
Render(seg) ==
    IF seg.kind = "line"
    THEN seg.text \o (IF seg.end = "nl" THEN <<10>> ELSE <<>>)
    ELSE LET head == create_file_start_delimiter(
                         seg.filename, get_file_byte_count(seg.content))
                     \o <<10>> \o seg.content
         IN  utf8_encode(
                 IF seg.end = "ok"
                 THEN head \o <<10>> \o create_file_end_delimiter(seg.filename) \o <<10>>
                 ELSE IF seg.end = "wrong"
                 THEN head \o <<10>>
                      \o create_file_end_delimiter(OtherName(seg.filename)) \o <<10>>
                 ELSE IF seg.end = "none" THEN head \o <<10>>
                 ELSE head)

RECURSIVE RenderAll(_)
RenderAll(segs) == IF segs = <<>> THEN <<>> ELSE Render(segs[1]) \o RenderAll(Tail(segs))

\* The files of a scenario, as read_multiple_files hands them to pack_files.
FilesOf(segs) == [i \in 1..Len(segs) |-> <<segs[i].filename, segs[i].content>>]

AllPacked(segs) == \A i \in 1..Len(segs) : segs[i] \in PackedSegs

(***************************************************************************)
(* The pack and unpack workflows.                                          *)
(***************************************************************************)
NoCall == [op |-> "none"]

\* The output directory before unpack: not there yet.
NoDirectory == [exists |-> FALSE, files |-> <<>>]

\* ensure_directory_exists(output_directory)
ensure_directory_exists(dir) == [dir EXCEPT !.exists = TRUE]

\* write_file_content(output_directory / filename, file_content): the file is
\* created or replaced.
write_file_content(dir, filename, file_content) ==
    [dir EXCEPT !.files = (filename :> file_content) @@ dir.files]

Init ==
    /\ input \in Scenarios
    /\ content_bytes = <<>>
    /\ pos = 0
    /\ state = "START"
    /\ file_data = <<>>
    /\ visited = {}
    /\ last = NoCall
    /\ output_directory = NoDirectory
    /\ written = 0

\* pack_files on the scenario's files; its output is what unpack is given.
PackFiles ==
    /\ state = "START"
    /\ AllPacked(input)
    /\ LET r == pack_files(FilesOf(input)) IN
          /\ last' = [op |-> "pack_files", result |-> r]
          /\ content_bytes' = utf8_encode(r.content)
          /\ state' = IF r.raised = "none" THEN "SCANNING" ELSE "FAILED"
    /\ UNCHANGED <<input, pos, file_data, visited, output_directory, written>>

\* unpack is given a stream that pack_files did not write as it stands.
ReadInput ==
    /\ state = "START"
    /\ ~AllPacked(input)
    /\ content_bytes' = RenderAll(input)
    /\ state' = "SCANNING"
    /\ UNCHANGED <<input, pos, file_data, visited, last, output_directory, written>>

\* One step of the unpack driver: a call of extract_next_file at the cursor.
\* The driver is not followed past a position it has already scanned.
Step ==
    /\ state = "SCANNING"
    /\ pos < Len(content_bytes)
    /\ pos \notin visited
    /\ LET r == extract_next_file(content_bytes, pos) IN
          /\ last' = [op |-> "extract_next_file", pos |-> pos, result |-> r]
          /\ visited' = visited \cup {pos}
          /\ IF r.raised # "none"
             THEN state' = "RAISED" /\ UNCHANGED <<pos, file_data>>
             ELSE IF r.found
             THEN /\ file_data' = Append(file_data, <<r.filename, r.file_content>>)
                  /\ pos' = r.new_pos
                  /\ state' = "SCANNING"
             ELSE IF r.new_pos = pos
             THEN state' = "DONE" /\ UNCHANGED <<pos, file_data>>
             ELSE pos' = r.new_pos /\ state' = "SCANNING" /\ UNCHANGED file_data
    /\ UNCHANGED <<input, content_bytes, output_directory, written>>

\* The driver's terminal condition.
Finish ==
    /\ state = "SCANNING"
    /\ pos >= Len(content_bytes)
    /\ state' = "DONE"
    /\ UNCHANGED <<input, content_bytes, pos, file_data, visited, last, output_directory, written>>

\* unpack_content making the output directory before it looks at the records.
UnpackCheck_DirectoryFirst ==
    /\ state = "DONE"
    /\ output_directory' = ensure_directory_exists(output_directory)
    /\ IF file_data = <<>>
       THEN /\ last' = [op |-> "unpack_content", raised |-> "ValueError",
                        error |-> "No valid file delimiters found in content"]
            /\ state' = "NO_FILES"
       ELSE /\ state' = "WRITING"
            /\ UNCHANGED last
    /\ UNCHANGED <<input, content_bytes, pos, file_data, visited, written>>

\* unpack_content once the records are parsed: no record is an error, raised
\* before the output directory is touched; otherwise the directory is made.
UnpackCheck ==
    /\ state = "DONE"
    /\ IF file_data = <<>>
       THEN /\ last' = [op |-> "unpack_content", raised |-> "ValueError",
                        error |-> "No valid file delimiters found in content"]
            /\ state' = "NO_FILES"
            /\ UNCHANGED output_directory
       ELSE /\ output_directory' = ensure_directory_exists(output_directory)
            /\ state' = "WRITING"
            /\ UNCHANGED last
    /\ UNCHANGED <<input, content_bytes, pos, file_data, visited, written>>

\* The loop over file_data taken from its last record to its first.
WriteFile_Reversed ==
    /\ state = "WRITING"
    /\ written < Len(file_data)
    /\ LET filename == file_data[Len(file_data) - written][1]
           file_content == file_data[Len(file_data) - written][2]
       IN  /\ output_directory' = write_file_content(output_directory, filename, file_content)
           /\ last' = [op |-> "write_file_content", filename |-> filename,
                       file_content |-> file_content]
    /\ written' = written + 1
    /\ UNCHANGED <<input, content_bytes, pos, state, file_data, visited>>

\* One turn of unpack_content's loop over file_data.
WriteFile ==
    /\ state = "WRITING"
    /\ written < Len(file_data)
    /\ LET filename == file_data[written + 1][1]
           file_content == file_data[written + 1][2]
       IN  /\ output_directory' = write_file_content(output_directory, filename, file_content)
           /\ last' = [op |-> "write_file_content", filename |-> filename,
                       file_content |-> file_content]
    /\ written' = written + 1
    /\ UNCHANGED <<input, content_bytes, pos, state, file_data, visited>>

\* unpack_content returns file_data.
ReturnFileData ==
    /\ state = "WRITING"
    /\ written = Len(file_data)
    /\ last' = [op |-> "unpack_content", raised |-> "none", error |-> ""]
    /\ state' = "UNPACKED"
    /\ UNCHANGED <<input, content_bytes, pos, file_data, visited, output_directory, written>>

Next == PackFiles \/ ReadInput \/ Step \/ Finish \/ UnpackCheck \/ WriteFile \/ ReturnFileData

Spec == Init /\ [][Next]_vars

(***************************************************************************)
(* The codec on its own: a start delimiter is formatted from a filename    *)
(* and a byte count, then tested and parsed.                               *)
(***************************************************************************)
MaxNameAtoms == 2

\* "a", " ", "(", " (", " bytes) ---", "bytes) ---", e-acute, "1"
NameAtoms ==
    {<<97>>, <<32>>, <<40>>, file_start_middle, file_start_bytes_suffix,
     Tail(file_start_bytes_suffix), <<233>>, <<49>>}

RECURSIVE Concat(_)
Concat(parts) == IF parts = <<>> THEN <<>> ELSE parts[1] \o Concat(Tail(parts))

CodecNames == {Concat(parts) : parts \in SeqsUpTo(NameAtoms, MaxNameAtoms)}

CodecCounts == {0, 1, 7, 10, 28, 105, 1000}

InitCodec ==
    /\ input \in [filename : CodecNames, byte_count : CodecCounts]
    /\ content_bytes = <<>>
    /\ pos = 0
    /\ state = "ARGS"
    /\ file_data = <<>>
    /\ visited = {}
    /\ last = NoCall
    /\ output_directory = NoDirectory
    /\ written = 0

FormatStart ==
    /\ state = "ARGS"
    /\ last' = [op |-> "create_file_start_delimiter",
                line |-> create_file_start_delimiter(input.filename, input.byte_count)]
    /\ state' = "LINE"
    /\ UNCHANGED <<input, content_bytes, pos, file_data, visited, output_directory, written>>

ParseStart ==
    /\ state = "LINE"
    /\ last' = [op |-> "parse_file_start_delimiter",
                line |-> last.line,
                is_start |-> is_file_start_delimiter(last.line),
                result |-> parse_file_start_delimiter(last.line)]
    /\ state' = "PARSED"
    /\ UNCHANGED <<input, content_bytes, pos, file_data, visited, output_directory, written>>

NextCodec == FormatStart \/ ParseStart

SpecCodec == InitCodec /\ [][NextCodec]_vars

(***************************************************************************)
(* The codec's two readers on their own, on lines of every shape: a line   *)
(* is a run of fragments, well formed or not.                              *)
(***************************************************************************)
MaxLineAtoms == 5

\* "--- FILE: ", " (", " bytes) ---", "a", "5", "-5", "("
LineAtoms ==
    {file_start_prefix, file_start_middle, file_start_bytes_suffix,
     <<97>>, <<53>>, <<45, 53>>, <<40>>}

CodecLines == {Concat(parts) : parts \in SeqsUpTo(LineAtoms, MaxLineAtoms)}

InitLine ==
    /\ input \in CodecLines
    /\ content_bytes = <<>>
    /\ pos = 0
    /\ state = "LINE"
    /\ file_data = <<>>
    /\ visited = {}
    /\ last = [op |-> "line", line |-> input]
    /\ output_directory = NoDirectory
    /\ written = 0

TestStart ==
    /\ state = "LINE"
    /\ last' = [op |-> "is_file_start_delimiter",
                line |-> last.line,
                result |-> is_file_start_delimiter(last.line)]
    /\ state' = "TESTED"
    /\ UNCHANGED <<input, content_bytes, pos, file_data, visited, output_directory, written>>

NextLine == TestStart \/ ParseStart

SpecLine == InitLine /\ [][NextLine]_vars

(***************************************************************************)
(* The extractor's two cursor operations on their own, at every position   *)
(* of a buffer.                                                            *)
(***************************************************************************)
MaxParts == 2

\* "x", a newline, e-acute (two bytes), a byte that is not UTF-8, an end marker
\* and a start line.
BufferParts ==
    {<<120>>, <<10>>, <<195, 169>>, <<255>>,
     utf8_encode(create_file_end_delimiter(NameA)),
     utf8_encode(create_file_start_delimiter(NameB, 1))}

ExtractBuffers == {Concat(parts) : parts \in SeqsUpTo(BufferParts, MaxParts)}

\* Declared counts tried at position p: small ones, the lengths of the two
\* delimiter lines, all that remains, and one more than remains.
CountsAt(bytes, p) ==
    {0, 1, 2, 3, Len(bytes) - p, Len(bytes) - p + 1}
        \cup {Len(b) : b \in {x \in BufferParts : Len(x) > 3}}

InitExtract ==
    /\ input = <<>>
    /\ content_bytes \in ExtractBuffers
    /\ pos = 0
    /\ state = "BUFFER"
    /\ file_data = <<>>
    /\ visited = {}
    /\ last = NoCall
    /\ output_directory = NoDirectory
    /\ written = 0

ExtractContent ==
    /\ state = "BUFFER"
    /\ \E p \in 0..Len(content_bytes) :
          \E n \in CountsAt(content_bytes, p) :
             last' = [op |-> "extract_file_content_at_position",
                      pos |-> p, byte_count |-> n,
                      result |-> extract_file_content_at_position(
                                     content_bytes, p, NameA, n)]
    /\ state' = "CALLED"
    /\ UNCHANGED <<input, content_bytes, pos, file_data, visited, output_directory, written>>

SkipEnd ==
    /\ state = "BUFFER"
    /\ \E p \in 0..Len(content_bytes) :
          \E f \in {NameA, NameB} :
             last' = [op |-> "skip_end_delimiter", pos |-> p, filename |-> f,
                      result |-> skip_end_delimiter(content_bytes, p, f)]
    /\ state' = "CALLED"
    /\ UNCHANGED <<input, content_bytes, pos, file_data, visited, output_directory, written>>

NextExtract == ExtractContent \/ SkipEnd

SpecExtract == InitExtract /\ [][NextExtract]_vars

(***************************************************************************)
(* What the properties below speak of.                                     *)
(***************************************************************************)
\* A filename that brings no middle fragment and no bytes suffix into the start
\* line before the real ones.
PlainName(f) ==
    /\ ~Contains(file_start_prefix \o f, file_start_middle)
    /\ ~Contains(file_start_prefix \o f, file_start_bytes_suffix)

PlainNames(segs) == \A i \in 1..Len(segs) : PlainName(segs[i].filename)

\* The offset of segment i in the rendered scenario.
SegOffset(segs, i) == Len(RenderAll(SubSeq(segs, 1, i - 1)))

\* The line extract_next_file reads at p: where it ends and its text.
CallLine(bytes, p) ==
    LET le == find_next_line_end(bytes, p)
        d == utf8_decode(Slice(bytes, p, le))
    IN  [line_end |-> le, ok |-> d.ok, text |-> d.text]

Called == last.op = "extract_next_file"

\* One file was packed and its buffer is being unpacked.
OnePacked == Len(input) = 1 /\ AllPacked(input) /\ state \in {"SCANNING", "DONE"}

\* The wire format of one file, as the round-trip test writes it.
WireBytes(f, c) ==
    utf8_encode(create_file_start_delimiter(f, Len(utf8_encode(c))) \o <<10>> \o c
                \o <<10>> \o create_file_end_delimiter(f) \o <<10>>)

Unpacking == state \in {"SCANNING", "DONE"}

\* Every call so far returned one record, the records are the files in their order, and
\* at the end of the scan they are all the files and the cursor is the buffer length.
InOrder ==
    /\ Len(file_data) = Cardinality(visited)
    /\ Len(file_data) <= Len(input)
    /\ file_data = SubSeq(FilesOf(input), 1, Len(file_data))
    /\ (state = "DONE" \/ pos >= Len(content_bytes)) =>
          /\ file_data = FilesOf(input)
          /\ pos = Len(content_bytes)

\* A whole line that does not parse as a start delimiter.
IsGarbage(seg) ==
    /\ seg \in LineSegs
    /\ seg.end = "nl"
    /\ LET d == utf8_decode(seg.text)
       IN  ~(d.ok /\ parse_file_start_delimiter(d.text).raised = "none")

IsRecord(seg) == seg \in PackedSegs /\ PlainName(seg.filename)

\* Segment i is a file followed by a wrong end marker, by the end of the buffer or by
\* the next file's start line.
EndCase(segs, i) ==
    /\ segs[i] \in TolerantSegs
    /\ \/ segs[i].end = "wrong"
       \/ i = Len(segs)
       \/ segs[i + 1].kind = "file"

\* The offset just past segment i's payload and the one newline that may follow it.
AfterPayload(segs, bytes, i) ==
    LET n == Len(utf8_encode(segs[i].content))
        payload_end == SegOffset(segs, i) + n + 1
                       + Len(utf8_encode(create_file_start_delimiter(segs[i].filename, n)))
    IN  IF payload_end < Len(bytes) /\ bytes[payload_end + 1] = 10
        THEN payload_end + 1 ELSE payload_end

\* The text between the first middle fragment of a line and its first bytes suffix.
NumericField(line) ==
    Slice(line, Find(line, file_start_middle, 0) + Len(file_start_middle),
          Find(line, file_start_bytes_suffix, 0))

\* A text that reads as an integer that is not negative.
IsNonNegativeInteger(text) == ParseInt(text).ok /\ ParseInt(text).value >= 0

Max(S) == CHOOSE x \in S : \A y \in S : x >= y

\* The content of the last of the records that carries filename f.
LastContent(records, f) ==
    records[Max({i \in 1..Len(records) : records[i][1] = f})][2]

\* The record of one file in the wire format, as text.
WireRecord(f, c) ==
    create_file_start_delimiter(f, Len(utf8_encode(c))) \o <<10>> \o c \o <<10>>
        \o create_file_end_delimiter(f) \o <<10>>

(***************************************************************************)
(* C1 as stated: for every filename f (no NUL, no newline) and every       *)
(* UTF-8 text c, the buffer pack_files builds for the one file (f, c) is   *)
(* start line, newline, c, newline, end line, newline, and                 *)
(* extract_next_file at position 0 yields exactly the record (f, c).       *)
(***************************************************************************)
C1_AnyName ==
    OnePacked =>
        /\ content_bytes = WireBytes(input[1].filename, input[1].content)
        /\ (Called /\ last.pos = 0) =>
              /\ last.result.found
              /\ last.result.filename = input[1].filename
              /\ last.result.file_content = input[1].content

(***************************************************************************)
(* C1 amended: the same, for every filename f such that the start prefix   *)
(* followed by f contains neither the middle fragment nor the bytes        *)
(* suffix.                                                                 *)
(***************************************************************************)
C1_PackUnpackOne ==
    (OnePacked /\ PlainName(input[1].filename)) =>
        /\ content_bytes = WireBytes(input[1].filename, input[1].content)
        /\ (Called /\ last.pos = 0) =>
              /\ last.result.found
              /\ last.result.filename = input[1].filename
              /\ last.result.file_content = input[1].content

\* The file whose content has a two-byte letter, a newline and no newline at its end.
C1_Witness ==
    /\ OnePacked
    /\ input[1] = File(NameA, TextAccent, "ok")
    /\ Called /\ last.pos = 0
    /\ last.result.file_content = TextAccent

(***************************************************************************)
(* C2 as stated: for every filename f (no NUL, no newline) and every byte  *)
(* count n >= 0, the start delimiter created from (f, n) passes            *)
(* is_file_start_delimiter and parses back to exactly (f, n).              *)
(***************************************************************************)
C2_AnyName ==
    state = "PARSED" =>
        /\ last.is_start
        /\ last.result.raised = "none"
        /\ last.result.filename = input.filename
        /\ last.result.byte_count = input.byte_count

(***************************************************************************)
(* C2 amended: the created start delimiter always passes                   *)
(* is_file_start_delimiter, and it parses back to exactly (f, n) whenever  *)
(* the start prefix followed by f contains neither the middle fragment     *)
(* nor the bytes suffix.                                                   *)
(***************************************************************************)
C2_StartRoundTrip ==
    state = "PARSED" =>
        /\ last.is_start
        /\ PlainName(input.filename) =>
              /\ last.result.raised = "none"
              /\ last.result.filename = input.filename
              /\ last.result.byte_count = input.byte_count

\* A plain filename with a space and a non-ASCII letter, and a four-digit count.
C2_Witness ==
    /\ state = "PARSED"
    /\ input.filename = <<32, 233>>
    /\ input.byte_count = 1000
    /\ last.result.byte_count = 1000

(***************************************************************************)
(* C3: for every buffer, position pos and declared count n that fits in    *)
(* what remains, with those n bytes valid UTF-8,                           *)
(* extract_file_content_at_position returns the text whose encoding is     *)
(* exactly the bytes pos .. pos+n and the cursor pos + n, whatever the     *)
(* bytes hold.                                                             *)
(***************************************************************************)
C3_ByteExact ==
    last.op = "extract_file_content_at_position" =>
        LET taken == SubSeq(content_bytes, last.pos + 1, last.pos + last.byte_count)
        IN  (last.byte_count <= Len(content_bytes) - last.pos /\ utf8_decode(taken).ok) =>
                /\ last.result.raised = "none"
                /\ utf8_encode(last.result.file_content) = taken
                /\ last.result.new_pos = last.pos + last.byte_count

\* A payload that is a newline followed by a whole start line.
C3_Witness ==
    /\ last.op = "extract_file_content_at_position"
    /\ last.result.raised = "none"
    /\ last.pos = 0
    /\ last.result.file_content = <<10>> \o create_file_start_delimiter(NameB, 1)

(***************************************************************************)
(* C4 as stated: for every list of files packed in the wire format,        *)
(* repeated extract_next_file calls from position 0 return the records one *)
(* per call, in the original order, with their exact payloads; payload     *)
(* text that looks like a delimiter gives no extra record; the cursor      *)
(* after the last record is the buffer length.                             *)
(***************************************************************************)
C4_AnyNames == (Unpacking /\ AllPacked(input)) => InOrder

(***************************************************************************)
(* C4 amended: the same, for every list of files none of whose filenames   *)
(* brings the middle fragment or the bytes suffix into the start line      *)
(* (the start prefix followed by the filename contains neither).           *)
(***************************************************************************)
C4_RecordsInOrder == (Unpacking /\ AllPacked(input) /\ PlainNames(input)) => InOrder

\* Two files unpacked, the first with delimiter lines as its content.
C4_Witness ==
    /\ state = "DONE"
    /\ Len(input) = 2
    /\ input[1] = File(NameB, TextDelims, "ok")
    /\ input[2] = File(NameA, TextAccent, "ok")
    /\ file_data = FilesOf(input)

(***************************************************************************)
(* C5: the unpack driver run on a buffer of valid records interleaved with *)
(* garbage lines yields exactly the valid records, in their order.         *)
(***************************************************************************)
C5_GarbageSkipped ==
    (state = "DONE" /\ \A i \in 1..Len(input) : IsRecord(input[i]) \/ IsGarbage(input[i]))
        => file_data = FilesOf(SelectSeq(input, IsRecord))

(***************************************************************************)
(* C6: a file whose payload has the declared size and is followed by an    *)
(* end marker naming another file, by the end of the buffer or by the next *)
(* record's start line is still returned as (filename, payload), with the  *)
(* cursor at the start of what follows the payload and at most one         *)
(* newline, where the driver scans next.                                   *)
(***************************************************************************)
C6_EndTolerance ==
    \A i \in 1..Len(input) :
        (Called /\ EndCase(input, i) /\ last.pos = SegOffset(input, i)) =>
            /\ last.result.found
            /\ last.result.filename = input[i].filename
            /\ last.result.file_content = input[i].content
            /\ last.result.new_pos = AfterPayload(input, content_bytes, i)
            /\ pos = last.result.new_pos

\* A payload with no end marker, followed at once by the next record's start line.
C6_Witness ==
    /\ Called /\ last.pos = 0 /\ last.result.found
    /\ Len(input) = 2
    /\ input[1] = File(NameA, TextX, "bare")
    /\ input[2] = File(NameB, TextEmpty, "ok")
    /\ pos = Len(Render(input[1]))

(***************************************************************************)
(* C7: when the declared byte count exceeds what remains from the payload  *)
(* start, extract_file_content_at_position fails with 'Not enough          *)
(* content' and extract_next_file returns no record, whole or partial, for *)
(* that start line.                                                        *)
(***************************************************************************)
C7_Truncation ==
    Called =>
        LET c == CallLine(content_bytes, last.pos)
            parsed == parse_file_start_delimiter(c.text)
        IN  (/\ c.ok
             /\ parsed.raised = "none"
             /\ parsed.byte_count > Len(content_bytes) - (c.line_end + 1)) =>
                /\ extract_file_content_at_position(
                       content_bytes, c.line_end + 1, parsed.filename, parsed.byte_count)
                   = ExtractError("Not enough content")
                /\ ~last.result.found
                /\ last.result.filename = <<>>
                /\ last.result.file_content = <<>>
                /\ Len(file_data) <= Cardinality(visited \ {last.pos})

\* The start line that declares 1000 bytes, with a line of content after it.
C7_Witness ==
    /\ Called /\ last.pos = 0 /\ ~last.result.found
    /\ Len(input) = 2
    /\ input[1] = Line(utf8_encode(create_file_start_delimiter(NameA, 1000)), "nl")
    /\ input[2] = Line(<<122, 122>>, "nl")
    /\ file_data = <<>>

(***************************************************************************)
(* C8: the unpack driver reaches DONE after finitely many steps.  The      *)
(* driver's next cursor is a function of the buffer and the cursor alone,  *)
(* so it ends exactly when it never scans at a position it has scanned     *)
(* before.                                                                 *)
(***************************************************************************)
C8_Terminates == state = "SCANNING" => pos \notin visited

(***************************************************************************)
(* C9: at every position before the end of the buffer, a call of           *)
(* extract_next_file that returns no record returns a cursor strictly      *)
(* greater than the position.                                              *)
(***************************************************************************)
C9_ProgressBeforeEnd ==
    (Called /\ ~last.result.found /\ last.pos < Len(content_bytes))
        => last.result.new_pos > last.pos

(***************************************************************************)
(* C10: extract_next_file never raises; when the line passes the           *)
(* start-delimiter syntax check but does not parse, or its payload is      *)
(* truncated or is not valid UTF-8, it returns no record and the cursor    *)
(* line_end + 1, just past the start line.                                 *)
(***************************************************************************)
C10_SkipAndContinue ==
    /\ state # "RAISED"
    /\ Called =>
          /\ last.result.raised = "none"
          /\ LET c == CallLine(content_bytes, last.pos)
                 parsed == parse_file_start_delimiter(c.text)
                 from == c.line_end + 1
                 failed ==
                     \/ parsed.raised # "none"
                     \/ from + parsed.byte_count > Len(content_bytes)
                     \/ ~utf8_decode(Slice(content_bytes, from, from + parsed.byte_count)).ok
             IN  (c.ok /\ is_file_start_delimiter(c.text) /\ failed) =>
                     /\ ~last.result.found
                     /\ last.result.new_pos = from
                     /\ pos = from

\* A start line that declares one byte, followed by the first byte of a two-byte letter.
C10_Witness ==
    /\ Called /\ last.pos = 0 /\ ~last.result.found
    /\ Len(input) = 2
    /\ input[1] = Line(utf8_encode(create_file_start_delimiter(NameA, 1)), "nl")
    /\ input[2] = Line(<<195, 169, 255>>, "nl")
    /\ pos = Len(Render(input[1]))

(***************************************************************************)
(* C11: parse_file_start_delimiter raises ValueError for every line that   *)
(* is_file_start_delimiter rejects, that has no middle fragment or no      *)
(* bytes suffix, or whose text between the middle fragment and the bytes   *)
(* suffix is not a non-negative integer; it succeeds only when that text   *)
(* is a non-negative integer.                                              *)
(***************************************************************************)
C11_ParseFailures ==
    state = "PARSED" =>
        LET invalid ==
                \/ ~is_file_start_delimiter(last.line)
                \/ Find(last.line, file_start_middle, 0) = -1
                \/ Find(last.line, file_start_bytes_suffix, 0) = -1
                \/ ~IsNonNegativeInteger(NumericField(last.line))
        IN  /\ invalid => last.result.raised = "ValueError"
            /\ last.result.raised = "none" => IsNonNegativeInteger(NumericField(last.line))

(***************************************************************************)
(* C12: is_file_start_delimiter(line) is true if and only if the line      *)
(* starts with the start prefix, contains the middle fragment at a         *)
(* position after the end of the prefix, and ends with the bytes suffix.   *)
(***************************************************************************)
C12_IsStartIff ==
    state = "TESTED" =>
        (last.result <=>
            /\ StartsWith(last.line, file_start_prefix)
            /\ Find(last.line, file_start_middle, Len(file_start_prefix)) # -1
            /\ EndsWith(last.line, file_start_bytes_suffix))

(***************************************************************************)
(* C17: whenever parse_file_start_delimiter succeeds on a line, the        *)
(* filename it returns is the text between the end of the start prefix and *)
(* the first middle fragment located after the prefix, and the byte count  *)
(* is the value of the text between that middle fragment and the bytes     *)
(* suffix.                                                                 *)
(***************************************************************************)
C17_FirstOccurrenceSplit ==
    (state = "PARSED" /\ last.result.raised = "none") =>
        LET split == Find(last.line, file_start_middle, Len(file_start_prefix))
            count == ParseInt(Slice(last.line, split + Len(file_start_middle),
                                    Find(last.line, file_start_bytes_suffix, 0)))
        IN  /\ split # -1
            /\ last.result.filename = SubSeq(last.line, Len(file_start_prefix) + 1, split)
            /\ count.ok
            /\ last.result.byte_count = count.value

(***************************************************************************)
(* C13: when parsing yields no record, unpack_content fails with 'No valid *)
(* file delimiters found in content' and the output directory and its      *)
(* files are as they were, nothing created and nothing written then or     *)
(* later; when at least one record is parsed it does not raise this error. *)
(***************************************************************************)
C13_NoRecordsError ==
    /\ [](state = "NO_FILES" =>
            /\ file_data = <<>>
            /\ written = 0
            /\ last = [op |-> "unpack_content", raised |-> "ValueError",
                       error |-> "No valid file delimiters found in content"])
    /\ [](state \in {"WRITING", "UNPACKED"} => file_data # <<>>)
    /\ [][(state = "DONE" /\ file_data = <<>>) => state' = "NO_FILES"]_vars
    /\ [][(state' = "NO_FILES" \/ state = "NO_FILES") =>
              (output_directory' = output_directory /\ written' = written)]_vars

\* Two lines of garbage unpacked: the error, and still no output directory.
C13_Witness ==
    /\ state = "NO_FILES"
    /\ Len(input) = 2
    /\ output_directory = NoDirectory

(***************************************************************************)
(* C14: unpack_content writes the records in their parsed order, each to   *)
(* its filename in the output directory, so once it has returned every     *)
(* filename of the record list holds the content of the last record that   *)
(* carries it.                                                             *)
(***************************************************************************)
C14_LastWriteWins ==
    /\ (state = "WRITING" /\ written > 0) =>
          last = [op |-> "write_file_content", filename |-> file_data[written][1],
                  file_content |-> file_data[written][2]]
    /\ state \in {"WRITING", "UNPACKED"} =>
          /\ output_directory.exists
          /\ \A i \in 1..written :
                /\ file_data[i][1] \in DOMAIN output_directory.files
                /\ output_directory.files[file_data[i][1]]
                   = LastContent(SubSeq(file_data, 1, written), file_data[i][1])
    /\ state = "UNPACKED" => written = Len(file_data)

\* Two records named "a": the file holds the content of the second.
C14_Witness ==
    /\ state = "UNPACKED"
    /\ file_data = <<<<NameA, TextX>>, <<NameA, TextAccent>>>>
    /\ output_directory = [exists |-> TRUE, files |-> (NameA :> TextAccent)]

(***************************************************************************)
(* C15: for a non-empty list of (filename, content) pairs pack_files       *)
(* returns, in list order and with nothing in between, one record per file *)
(* of the form start line (declaring the UTF-8 byte length of the          *)
(* content), newline, content, newline, end line, newline; for an empty    *)
(* file listing it raises the no-files-found ValueError and produces no    *)
(* output.                                                                 *)
(***************************************************************************)
C15_PackFormat ==
    (AllPacked(input) /\ state # "START") =>
        LET records == [i \in 1..Len(input) |->
                           WireRecord(input[i].filename, input[i].content)]
        IN  IF input = <<>>
            THEN /\ state = "FAILED"
                 /\ last = [op |-> "pack_files",
                            result |-> [raised |-> "ValueError", error |-> "No files found",
                                        content |-> <<>>]]
                 /\ content_bytes = <<>>
            ELSE /\ state # "FAILED"
                 /\ content_bytes = utf8_encode(Concat(records))
                 /\ last.op = "pack_files" =>
                       last.result = [raised |-> "none", error |-> "",
                                      content |-> Concat(records)]

\* Two files packed, the first with delimiter lines as its content, the second with a
\* two-byte letter.
C15_Witness ==
    /\ state = "SCANNING"
    /\ last.op = "pack_files"
    /\ Len(input) = 2
    /\ input[1] = File(NameB, TextDelims, "ok")
    /\ input[2] = File(NameA, TextAccent, "ok")
    /\ Len(content_bytes) > Len(last.result.content)

(***************************************************************************)
(* C16: skip_end_delimiter at or past the end of the buffer returns pos    *)
(* unchanged; otherwise, one newline at pos consumed if present, when the  *)
(* following line equals the expected end marker it returns the position   *)
(* just past that line, and past the line's newline only if that newline   *)
(* is there: an unterminated final end marker leaves the cursor at the     *)
(* buffer length.                                                          *)
(***************************************************************************)
C16_SkipMatchingEnd ==
    last.op = "skip_end_delimiter" =>
        LET n == Len(content_bytes)
            from == IF last.pos < n /\ content_bytes[last.pos + 1] = 10
                    THEN last.pos + 1 ELSE last.pos
            newlines == {i \in from..(n - 1) : content_bytes[i + 1] = 10}
            line_end == IF newlines = {} THEN n ELSE Min(newlines)
            marker == utf8_encode(create_file_end_delimiter(last.filename))
        IN  IF last.pos >= n THEN last.result = last.pos
            ELSE SubSeq(content_bytes, from + 1, line_end) = marker =>
                     last.result = IF line_end < n THEN line_end + 1 ELSE n

(***************************************************************************)
(* C18: for every buffer and position pos with 0 <= pos <= len(buffer),    *)
(* the cursor extract_next_file returns is never smaller than pos, and is  *)
(* strictly greater than pos whenever a record is returned.                *)
(***************************************************************************)
C18_CursorMonotone ==
    (Called /\ 0 <= last.pos /\ last.pos <= Len(content_bytes)) =>
        /\ last.result.new_pos >= last.pos
        /\ last.result.found => last.result.new_pos > last.pos

(***************************************************************************)
(* C19: the cursors extract_next_file returns from a position inside the   *)
(* buffer are at most len(buffer), so the cursor of the unpack driver is a *)
(* valid byte offset, between 0 and len(buffer), in every state.           *)
(***************************************************************************)
C19_CursorInBuffer ==
    /\ 0 <= pos /\ pos <= Len(content_bytes)
    /\ (Called /\ 0 <= last.pos /\ last.pos <= Len(content_bytes)) =>
          last.result.new_pos <= Len(content_bytes)

(***************************************************************************)
(* C20: every record (filename, text) extract_next_file returns at pos     *)
(* comes from a line at pos that parses to (filename, n) with n >= 0, and  *)
(* text is the decoding of exactly the n bytes that follow that line's     *)
(* newline, so the UTF-8 byte length of text is the declared n.            *)
(***************************************************************************)
C20_DeclaredCount ==
    (Called /\ last.result.found) =>
        LET c == CallLine(content_bytes, last.pos)
            parsed == parse_file_start_delimiter(c.text)
            n == parsed.byte_count
            taken == SubSeq(content_bytes, c.line_end + 2, c.line_end + 1 + n)
        IN  /\ c.ok
            /\ parsed.raised = "none"
            /\ parsed.filename = last.result.filename
            /\ n >= 0
            /\ c.line_end + 1 + n <= Len(content_bytes)
            /\ utf8_decode(taken) = [ok |-> TRUE, text |-> last.result.file_content]
            /\ Len(utf8_encode(last.result.file_content)) = n

====
